---- MODULE Spec2Model ----
(***************************************************************************)
(* PacketOps: the IPv4 / TCP / ICMP header generators and the checksum     *)
(* they share.  A generator object is the function `self` from attribute   *)
(* names to values (Python's __dict__); `cls` is its class.  One action    *)
(* per method call or attribute assignment of the caller.                  *)
(*                                                                         *)
(* Byte strings are sequences of 0..255.  Python's integers are unbounded; *)
(* the values drawn here stay below 2^31, the 32-bit range check of        *)
(* struct.pack is written so that it needs no larger number.               *)
(***************************************************************************)
EXTENDS Integers, Sequences, FiniteSets, TLC

VARIABLES
    cls,      \* class of the generator object: IPGenerator, TCPGenerator, ...
    self,     \* the object's attributes, by name
    ret,      \* outcome of the caller's latest call
    calls,    \* number of pack() calls made on the object
    builds,   \* number of those that returned bytes
    sets,     \* number of attribute assignments and setter calls made on it
    header,   \* argument of a direct chksum() call
    csum      \* what that call returned

vars == <<cls, self, ret, calls, builds, sets, header, csum>>

-----------------------------------------------------------------------------
(* Bounds of the model *)

\* longest byte string handed to chksum() directly
MaxLen == 3
\* attribute assignments the caller makes on one object
MaxSets == 1
\* pack() calls on one object in the general specification
MaxBuilds == 2
\* pack() calls on one object in the long-run specifications
MaxRun == 65537
\* pack() calls of one loop of the caller in the long-run specifications
Burst == 30

-----------------------------------------------------------------------------
(* Bit operations of Python on non-negative integers *)

Pow2(n) == 2 ^ n

\* a << n
Shl(a, n) == a * Pow2(n)

\* a >> n
Shr(a, n) == a \div Pow2(n)

\* a | b
RECURSIVE BitOr(_, _)
BitOr(a, b) ==
    IF a = 0 THEN b
    ELSE IF b = 0 THEN a
    ELSE (IF a % 2 = 1 \/ b % 2 = 1 THEN 1 ELSE 0) + 2 * BitOr(a \div 2, b \div 2)

Reverse(s) == [i \in 1..Len(s) |-> s[Len(s) + 1 - i]]

-----------------------------------------------------------------------------
(* tools.py *)

\* (c >> 16) + (c & 0xffff)
carry_around_add(a, b) ==
    LET c == a + b IN Shr(c, 16) + (c % 65536)

\* int.from_bytes(header, 'big') followed by the loop that peels 8-bit words
\* off the low end while the number is positive: the bytes last to first,
\* the leading zero bytes of the input lost.
RECURSIVE StripLeadingZeros(_)
StripLeadingZeros(s) ==
    IF s = <<>> THEN <<>>
    ELSE IF Head(s) = 0 THEN StripLeadingZeros(Tail(s))
    ELSE s

ChksumWords(s) ==
    LET words == Reverse(StripLeadingZeros(s))
    IN  IF Len(words) % 2 = 1 THEN Append(words, 0) ELSE words

\* the loop over range(0, len(words), 2); i is the 1-based index of words[i]
RECURSIVE ChksumSum(_, _, _)
ChksumSum(words, i, sum_) ==
    IF i > Len(words) THEN sum_
    ELSE ChksumSum(words, i + 2,
                   carry_around_add(sum_, Shl(words[i + 1], 8) + words[i]))

\* ~sum_ & 0xffff
Complement16(x) == 65535 - (x % 65536)

chksum(s) == Complement16(ChksumSum(ChksumWords(s), 1, 0))

-----------------------------------------------------------------------------
(* struct.pack with a '!' format: each value big-endian in its width, a      *)
(* struct.error when a value does not fit its code (B 1, H 2, I and L 4      *)
(* bytes).                                                                   *)

Fits(n, v) == v >= 0 /\ (v \div Pow2(8 * (n - 1))) <= 255

BytesOf(n, v) == [i \in 1..n |-> (v \div Pow2(8 * (n - i))) % 256]

StructFits(fmt, vals) == \A i \in 1..Len(fmt) : Fits(fmt[i], vals[i])

RECURSIVE StructPack(_, _)
StructPack(fmt, vals) ==
    IF fmt = <<>> THEN <<>>
    ELSE BytesOf(Head(fmt), Head(vals)) \o StructPack(Tail(fmt), Tail(vals))

-----------------------------------------------------------------------------
(* Outcomes of a call: None or bytes returned, an exception raised to the    *)
(* caller, or exit() reached in an except block.                             *)

NoObject == <<>>
None == [status |-> "none", data |-> <<>>]

Returned(s, b) == [self |-> s, ret |-> [status |-> "bytes", data |-> b]]
Raised(s) == [self |-> s, ret |-> [status |-> "raise", data |-> <<>>]]
Exited(s) == [self |-> s, ret |-> [status |-> "exit", data |-> <<>>]]

-----------------------------------------------------------------------------
(* ip_generator.py *)

\* ip_protocol.value of the IPProtocol enum
IPProtocol == 0..9

IPGenerator_init(ip_protocol) ==
    [ip_version |-> 4, ip_hdr_len |-> 5, ip_dscp |-> 0, ip_ecn |-> 0,
     ip_total_len |-> 0, ip_id |-> 1, ip_flag |-> 2, ip_frag_offset |-> 0,
     ip_ttl |-> 255, ip_protocol |-> ip_protocol, ip_hdr_chksum |-> 0,
     ip_src_ip |-> 0, ip_dst_ip |-> 0]

\* declared widths, from the comments beside the attributes
IPBits ==
    [ip_version |-> 4, ip_hdr_len |-> 4, ip_dscp |-> 6, ip_ecn |-> 2,
     ip_total_len |-> 16, ip_id |-> 16, ip_flag |-> 3, ip_frag_offset |-> 13,
     ip_ttl |-> 8, ip_protocol |-> 8, ip_hdr_chksum |-> 16,
     ip_src_ip |-> 32, ip_dst_ip |-> 32]

\* int(ipaddress.IPv4Address(text)); the text is given as its dot-separated
\* numbers, and is an address when there are four of them, each 0..255
IsIPv4(a) == Len(a) = 4 /\ \A i \in 1..4 : a[i] \in 0..255
IPv4Int(a) == ((a[1] * 256 + a[2]) * 256 + a[3]) * 256 + a[4]

\* '!BBHHBBBBHLL'
IPFormat == <<1, 1, 2, 2, 1, 1, 1, 1, 2, 4, 4>>

ip_b0(s) == BitOr(Shl(s.ip_version, 4), s.ip_hdr_len)
ip_b1(s) == BitOr(Shl(s.ip_dscp, 2), s.ip_ecn)
ip_b6(s) == BitOr(Shl(s.ip_flag, 5), Shr(s.ip_frag_offset, 8))
ip_b7(s) == s.ip_frag_offset % 256

IPHeaderValues(s) ==
    <<ip_b0(s), ip_b1(s), s.ip_total_len, s.ip_id, ip_b6(s), ip_b7(s),
      s.ip_ttl, s.ip_protocol, s.ip_hdr_chksum, s.ip_src_ip, s.ip_dst_ip>>

\* the length added to the stored one
IPTotalLenAdded(s, payload_data_length) ==
    s.ip_total_len + s.ip_hdr_len * 4 + payload_data_length

IPTotalLen(s, payload_data_length) == s.ip_hdr_len * 4 + payload_data_length

MaxId == 65535

\* the counter wrapping as a 16-bit number does, through 0
IdNextThroughZero(id) == (id + 1) % (MaxId + 1)

IdNext(id) == IF id < MaxId THEN id + 1 ELSE 1

IPGenerator_pack(s, payload_data_length) ==
    LET s1 == [s EXCEPT !.ip_total_len = IPTotalLen(s, payload_data_length),
                        !.ip_hdr_chksum = 0]
    IN  IF ~StructFits(IPFormat, IPHeaderValues(s1)) THEN Exited(s1)
        ELSE
        LET chksum_data == StructPack(IPFormat, IPHeaderValues(s1))
            s2 == [s1 EXCEPT !.ip_hdr_chksum = chksum(chksum_data)]
            s3 == [s2 EXCEPT !.ip_id = IdNext(s2.ip_id)]
        IN  IF ~StructFits(IPFormat, IPHeaderValues(s3)) THEN Exited(s3)
            ELSE Returned(s3, StructPack(IPFormat, IPHeaderValues(s3)))

-----------------------------------------------------------------------------
(* tcp_generator.py *)

TCPGenerator_init(payload, sqn) ==
    [tcp_src_port |-> 0, tcp_dst_port |-> 0, tcp_sqn |-> sqn, tcp_ack |-> 0,
     tcp_hdr_length |-> 5, tcp_reserved |-> 0, tcp_flag_ns |-> 0,
     tcp_flag_cwr |-> 0, tcp_flag_ece |-> 0, tcp_flag_urg |-> 0,
     tcp_flag_ack |-> 0, tcp_flag_psh |-> 0, tcp_flag_rst |-> 0,
     tcp_flag_syn |-> 0, tcp_flag_fin |-> 0, tcp_win_size |-> 65535,
     tcp_hdr_chksum |-> 0, tcp_urg_pntr |-> 0, tcp_opts |-> 0,
     payload |-> payload]
    @@ IPGenerator_init(6)

TCPBits ==
    [tcp_src_port |-> 16, tcp_dst_port |-> 16, tcp_sqn |-> 32, tcp_ack |-> 32,
     tcp_hdr_length |-> 4, tcp_reserved |-> 3, tcp_flag_ns |-> 1,
     tcp_flag_cwr |-> 1, tcp_flag_ece |-> 1, tcp_flag_urg |-> 1,
     tcp_flag_ack |-> 1, tcp_flag_psh |-> 1, tcp_flag_rst |-> 1,
     tcp_flag_syn |-> 1, tcp_flag_fin |-> 1, tcp_win_size |-> 16,
     tcp_hdr_chksum |-> 16, tcp_urg_pntr |-> 16]

\* '!IIBBH' and '!HHIIBBHHH'
PseudoFormat == <<4, 4, 1, 1, 2>>
TCPFormat == <<2, 2, 4, 4, 1, 1, 2, 2, 2>>

tcp_byte13(s) == BitOr(Shl(s.tcp_hdr_length, 4), s.tcp_flag_ns)

tcp_byte14(s) ==
    LET c1 == s.tcp_flag_cwr
        c2 == BitOr(Shl(c1, 1), s.tcp_flag_ece)
        c3 == BitOr(Shl(c2, 1), s.tcp_flag_urg)
        c4 == BitOr(Shl(c3, 1), s.tcp_flag_ack)
        c5 == BitOr(Shl(c4, 1), s.tcp_flag_psh)
        c6 == BitOr(Shl(c5, 1), s.tcp_flag_rst)
        c7 == BitOr(Shl(c6, 1), s.tcp_flag_syn)
    IN  BitOr(Shl(c7, 1), s.tcp_flag_fin)

TCPHeaderValues(s) ==
    <<s.tcp_src_port, s.tcp_dst_port, s.tcp_sqn, s.tcp_ack, tcp_byte13(s),
      tcp_byte14(s), s.tcp_win_size, s.tcp_hdr_chksum, s.tcp_urg_pntr>>

TCPPseudoValues(s) ==
    <<s.ip_src_ip, s.ip_dst_ip, 0, s.ip_protocol,
      s.tcp_hdr_length * 4 + Len(s.payload)>>

\* the options check left out
OptionsUnchecked(s) == FALSE

\* if self.tcp_opts != 0: raise
TCPOptionsSet(s) == s.tcp_opts # 0

TCPGenerator_pack(s) ==
    LET s1 == [s EXCEPT !.tcp_hdr_chksum = 0]
    IN  IF TCPOptionsSet(s1) THEN Exited(s1)
        ELSE IF ~StructFits(PseudoFormat, TCPPseudoValues(s1)) THEN Exited(s1)
        ELSE IF ~StructFits(TCPFormat, TCPHeaderValues(s1)) THEN Exited(s1)
        ELSE
        LET psuedo_hdr == StructPack(PseudoFormat, TCPPseudoValues(s1))
            chksum_data == StructPack(TCPFormat, TCPHeaderValues(s1))
            s2 == [s1 EXCEPT !.tcp_hdr_chksum =
                                 chksum(psuedo_hdr \o chksum_data \o s1.payload)]
        IN  IF ~StructFits(TCPFormat, TCPHeaderValues(s2)) THEN Exited(s2)
            ELSE
            LET tcp_data == StructPack(TCPFormat, TCPHeaderValues(s2))
                ip == IPGenerator_pack(s2, Len(tcp_data \o s2.payload))
            IN  IF ip.ret.status = "bytes"
                THEN Returned(ip.self, ip.ret.data \o tcp_data \o s2.payload)
                ELSE ip

-----------------------------------------------------------------------------
(* icmp_generator.py *)

ICMPGenerator_init(type_, payload, code) ==
    [icmp_type |-> type_, icmp_code |-> code, icmp_hdr_chksum |-> 0,
     icmp_opt |-> 0, payload |-> payload]
    @@ IPGenerator_init(1)

ICMPBits ==
    [icmp_type |-> 8, icmp_code |-> 8, icmp_hdr_chksum |-> 16, icmp_opt |-> 32]

\* '!BBHI'
ICMPFormat == <<1, 1, 2, 4>>

ICMPHeaderValues(s) ==
    <<s.icmp_type, s.icmp_code, s.icmp_hdr_chksum, s.icmp_opt>>

\* no try block here: a struct.error goes to the caller
ICMPGenerator_pack(s) ==
    LET s1 == [s EXCEPT !.icmp_hdr_chksum = 0]
    IN  IF ~StructFits(ICMPFormat, ICMPHeaderValues(s1)) THEN Raised(s1)
        ELSE
        LET chksum_data == StructPack(ICMPFormat, ICMPHeaderValues(s1)) \o s1.payload
            s2 == [s1 EXCEPT !.icmp_hdr_chksum = chksum(chksum_data)]
        IN  IF ~StructFits(ICMPFormat, ICMPHeaderValues(s2)) THEN Raised(s2)
            ELSE
            LET icmp_data == StructPack(ICMPFormat, ICMPHeaderValues(s2)) \o s2.payload
                ip == IPGenerator_pack(s2, Len(icmp_data))
            IN  IF ip.ret.status = "bytes"
                THEN Returned(ip.self, ip.ret.data \o icmp_data)
                ELSE ip

\* ICMPType.ECHO_REQUEST.value
ECHO_REQUEST == 8

\* b'ABCDEFGHIJKLMNOPQRSTUVWXYZ'
DefaultMessage == [i \in 1..26 |-> 64 + i]

\* message += b' ' when its length is odd
PingMessage(message) ==
    IF Len(message) % 2 # 0 THEN Append(message, 32) ELSE message

Ping_init(message, id_) ==
    [ICMPGenerator_init(ECHO_REQUEST, PingMessage(message), 0)
        EXCEPT !.icmp_opt = Shl(id_, 16)]

Ping_pack(s) ==
    ICMPGenerator_pack([s EXCEPT !.icmp_opt = s.icmp_opt + 1])

-----
(* Direct use of chksum() *)

ByteVals == {0, 1, 242, 255}

RECURSIVE SeqsUpTo(_, _)
SeqsUpTo(S, n) ==
    IF n = 0 THEN {<<>>}
    ELSE LET shorter == SeqsUpTo(S, n - 1)
         IN  shorter \cup {Append(s, b) : s \in shorter, b \in S}

\* the RFC 1071 example bytes
KnownVector == <<0, 1, 242, 3, 244, 245, 246, 247>>

InitChk ==
    /\ cls = "none"
    /\ self = NoObject
    /\ ret = None
    /\ calls = 0
    /\ builds = 0
    /\ sets = 0
    /\ header \in SeqsUpTo(ByteVals, MaxLen) \cup {KnownVector}
    /\ csum = -1

CallChksum ==
    /\ csum = -1
    /\ csum' = chksum(header)
    /\ UNCHANGED <<cls, self, ret, calls, builds, sets, header>>

NextChk == CallChksum

SpecChk == InitChk /\ [][NextChk]_vars

-----------------------------------------------------------------------------
(* The caller: one generator object, configured and packed repeatedly *)

\* the random start of tcp_sqn, the random ping id
SeqStarts == {0, 305419896}
PingIds == {0, 32766}

Payloads == {<<>>, <<65>>, <<65, 66>>}

\* texts given to set_src_ip / set_dst_ip; the last is no address
Addresses == {<<8, 8, 8, 8>>, <<127, 0, 0, 1>>, <<256, 0, 0, 1>>}

\* payload lengths given to IPGenerator.pack
PayloadLengths == {20, 65516}

Bits == IPBits @@ TCPBits @@ ICMPBits

\* values the caller assigns to an attribute: the largest its declared width
\* holds and the first one too wide (32-bit attributes: two that fit)
AttrValues(f) ==
    IF f = "payload" THEN Payloads
    ELSE IF f = "tcp_opts" THEN {1}
    ELSE IF Bits[f] = 32 THEN {1, 16909060}
    ELSE {Pow2(Bits[f]) - 1, Pow2(Bits[f])}

\* attributes assigned directly; the addresses and ports go through setters
Assignable == DOMAIN self \ {"ip_src_ip", "ip_dst_ip", "tcp_src_port", "tcp_dst_port"}

Alive == cls # "none" /\ ret.status # "exit"

Construct ==
    \/ \E p \in IPProtocol :
          cls = "IPGenerator" /\ self = IPGenerator_init(p)
    \/ \E payload \in Payloads, sqn \in SeqStarts :
          cls = "TCPGenerator" /\ self = TCPGenerator_init(payload, sqn)
    \/ \E type_ \in {0, ECHO_REQUEST}, payload \in Payloads, code \in {0, 1} :
          cls = "ICMPGenerator" /\ self = ICMPGenerator_init(type_, payload, code)
    \/ \E message \in Payloads \cup {DefaultMessage}, id_ \in PingIds :
          cls = "Ping" /\ self = Ping_init(message, id_)

Init ==
    /\ Construct
    /\ ret = None
    /\ calls = 0
    /\ builds = 0
    /\ sets = 0
    /\ header = <<>>
    /\ csum = -1

\* obj.attr = v
Assign ==
    /\ Alive
    /\ sets < MaxSets
    /\ \E f \in Assignable : \E v \in AttrValues(f) :
          self' = [self EXCEPT ![f] = v]
    /\ sets' = sets + 1
    /\ ret' = None
    /\ UNCHANGED <<cls, calls, builds, header, csum>>

SetIP(attr) ==
    /\ Alive
    /\ sets < MaxSets
    /\ \E a \in Addresses :
          IF IsIPv4(a)
          THEN self' = [self EXCEPT ![attr] = IPv4Int(a)] /\ ret' = None
          ELSE self' = self /\ ret' = Raised(self).ret
    /\ sets' = sets + 1
    /\ UNCHANGED <<cls, calls, builds, header, csum>>

set_src_ip == SetIP("ip_src_ip")
set_dst_ip == SetIP("ip_dst_ip")

SetPort(attr) ==
    /\ Alive
    /\ cls = "TCPGenerator"
    /\ sets < MaxSets
    /\ \E port \in AttrValues(attr) : self' = [self EXCEPT ![attr] = port]
    /\ sets' = sets + 1
    /\ ret' = None
    /\ UNCHANGED <<cls, calls, builds, header, csum>>

set_src_port == SetPort("tcp_src_port")
set_dst_port == SetPort("tcp_dst_port")

\* the outcome r of a pack() call
Called(r, limit) ==
    /\ calls < limit
    /\ calls' = calls + 1
    /\ self' = r.self
    /\ ret' = r.ret
    /\ builds' = IF r.ret.status = "bytes" THEN builds + 1 ELSE builds
    /\ UNCHANGED <<cls, sets, header, csum>>

IPPack(limit) ==
    /\ Alive
    /\ cls = "IPGenerator"
    /\ \E n \in PayloadLengths : \E r \in {IPGenerator_pack(self, n)} : Called(r, limit)

TCPPack(limit) ==
    /\ Alive
    /\ cls = "TCPGenerator"
    /\ \E r \in {TCPGenerator_pack(self)} : Called(r, limit)

ICMPPack(limit) ==
    /\ Alive
    /\ cls = "ICMPGenerator"
    /\ \E r \in {ICMPGenerator_pack(self)} : Called(r, limit)

PingPack(limit) ==
    /\ Alive
    /\ cls = "Ping"
    /\ \E r \in {Ping_pack(self)} : Called(r, limit)

Next ==
    \/ Assign
    \/ set_src_ip
    \/ set_dst_ip
    \/ set_src_port
    \/ set_dst_port
    \/ IPPack(MaxBuilds)
    \/ TCPPack(MaxBuilds)
    \/ ICMPPack(MaxBuilds)
    \/ PingPack(MaxBuilds)

Spec == Init /\ [][Next]_vars

-----------------------------------------------------------------------------
(* Long runs of pack() on one object, no attribute assigned by the caller.   *)
(* A behaviour TLC explores holds at most 65535 states, so the caller's loop *)
(* of Burst calls is one step: the caller runs some loops of Burst calls and *)
(* then fewer than Burst single calls, which makes every number of calls.    *)

\* for _ in range(k): r = obj.pack(n) -- an exception ends the loop
RECURSIVE IPLoop(_, _, _)
IPLoop(r, n, k) ==
    IF k = 0 \/ r.ret.status \notin {"none", "bytes"} THEN r
    ELSE LET q == IPGenerator_pack(r.self, n)
         IN  IPLoop([self |-> q.self, ret |-> q.ret, calls |-> r.calls + 1], n, k - 1)

RECURSIVE PingLoop(_, _)
PingLoop(r, k) ==
    IF k = 0 \/ r.ret.status \notin {"none", "bytes"} THEN r
    ELSE LET q == Ping_pack(r.self)
         IN  PingLoop([self |-> q.self, ret |-> q.ret, calls |-> r.calls + 1], k - 1)

AfterLoops == calls % Burst < Burst - 1

LoopStart(limit) == calls % Burst = 0 /\ calls + Burst <= limit

CalledLoop(r) ==
    /\ calls' = calls + r.calls
    /\ self' = r.self
    /\ ret' = r.ret
    /\ builds' = IF r.ret.status = "bytes" THEN builds + r.calls
                 ELSE builds + r.calls - 1
    /\ UNCHANGED <<cls, sets, header, csum>>

IPPackLoop(limit) ==
    /\ Alive
    /\ cls = "IPGenerator"
    /\ LoopStart(limit)
    /\ \E n \in PayloadLengths :
          \E r \in {IPLoop([self |-> self, ret |-> None, calls |-> 0], n, Burst)} :
             CalledLoop(r)

PingPackLoop(limit) ==
    /\ Alive
    /\ cls = "Ping"
    /\ LoopStart(limit)
    /\ \E r \in {PingLoop([self |-> self, ret |-> None, calls |-> 0], Burst)} :
          CalledLoop(r)

InitId ==
    /\ cls = "IPGenerator"
    /\ self = IPGenerator_init(6)
    /\ ret = None
    /\ calls = 0
    /\ builds = 0
    /\ sets = 0
    /\ header = <<>>
    /\ csum = -1

NextId ==
    \/ AfterLoops /\ IPPack(MaxRun)
    \/ IPPackLoop(MaxRun)

SpecId == InitId /\ [][NextId]_vars

InitPing ==
    /\ cls = "Ping"
    /\ \E id_ \in PingIds : self = Ping_init(<<65>>, id_)
    /\ ret = None
    /\ calls = 0
    /\ builds = 0
    /\ sets = 0
    /\ header = <<>>
    /\ csum = -1

NextPing ==
    \/ AfterLoops /\ PingPack(MaxRun)
    \/ PingPackLoop(MaxRun)

SpecPing == InitPing /\ [][NextPing]_vars

-----------------------------------------------------------------------------
(* What the claims speak of: the RFC 1071 checksum, the declared widths and  *)
(* the documented wire layout of a returned packet.                          *)

RECURSIVE RFCFold(_)
RFCFold(x) == IF x > 65535 THEN RFCFold((x \div 65536) + (x % 65536)) ELSE x

\* 16-bit big-endian words from the first byte on, a last odd byte padded
\* with a trailing zero byte, summed with end-around carry
RECURSIVE RFCSum(_, _, _)
RFCSum(s, i, acc) ==
    IF i > Len(s) THEN acc
    ELSE RFCSum(s, i + 2,
                RFCFold(acc + s[i] * 256 + (IF i + 1 <= Len(s) THEN s[i + 1] ELSE 0)))

RFC1071(s) == 65535 - RFCSum(s, 1, 0)

WithinWidth(f, v) ==
    IF Bits[f] = 32 THEN Fits(4, v) ELSE v >= 0 /\ v < 2 ^ Bits[f]

\* every header attribute holds a value of its declared width
InRange(s) == \A f \in DOMAIN s \cap DOMAIN Bits : WithinWidth(f, s[f])

\* byte at offset off (from 0) of d, and the 16-bit number at off
ByteAt(d, off) == d[off + 1]
U16At(d, off) == d[off + 1] * 256 + d[off + 2]
Slice(d, off, n) == SubSeq(d, off + 1, off + n)
Zeroed(d, off, n) == [i \in 1..Len(d) |-> IF i > off /\ i <= off + n THEN 0 ELSE d[i]]

IsGenerator == cls \in {"IPGenerator", "TCPGenerator", "ICMPGenerator", "Ping"}
PackReturned == IsGenerator /\ ret.status = "bytes"

\* C1: the 20-byte header returned by IPGenerator.pack for in-range
\* attributes is self-verifying: the RFC 1071 checksum over it, checksum
\* field included, is 0.
C1_IPHeaderSelfVerifying ==
    (cls = "IPGenerator" /\ ret.status = "bytes" /\ InRange(self))
        => (Len(ret.data) = 20 /\ RFC1071(ret.data) = 0)

\* C2: chksum equals the RFC 1071 reference on every byte sequence, of even
\* or odd length; the empty input gives 0xFFFF and the known vector 0x220D.
C2_ChksumIsRFC1071 ==
    (cls = "none" /\ csum # -1)
        => /\ csum = RFC1071(header)
           /\ header = <<>> => csum = 65535
           /\ header = KnownVector => csum = 8717

\* C3: over any sequence of pack() calls on an IPGenerator whose ip_id the
\* caller never assigns, ip_id stays in 1..0xFFFF and is 1 + (number of
\* packs that returned) mod 0xFFFF: each pack advances it by one, a pack at
\* 0xFFFF moves it to 1, and after 0xFFFF packs it is 1 again.
C3_IdentificationCounter ==
    cls = "IPGenerator"
        => /\ self.ip_id \in 1..MaxId
           /\ self.ip_id = 1 + (builds % MaxId)
           /\ builds = MaxId => self.ip_id = 1

C3_Witness ==
    cls = "IPGenerator" /\ builds = MaxId /\ self.ip_id = 1 /\ ret.status = "bytes"

\* C4: TCPGenerator.pack called with tcp_opts non-zero ends in an error
\* outcome, returns no bytes and leaves ip_id as it was before the call.
C4_OptionsRejected ==
    [][(cls = "TCPGenerator" /\ self.tcp_opts # 0 /\ calls' = calls + 1)
          => /\ ret'.status = "exit"
             /\ ret'.data = <<>>
             /\ builds' = builds
             /\ self'.ip_id = self.ip_id]_vars

C4_Witness ==
    /\ cls = "TCPGenerator"
    /\ self.tcp_opts # 0
    /\ ret.status = "exit"
    /\ builds >= 1
    /\ self.ip_id = builds + 1

\* C5: the n-th packet a Ping emits has ICMP type 8, code 0, the identifier
\* chosen at construction in the high half of the option field and the
\* sequence number n (as a 16-bit number) in the low half; pack() never
\* alters the identifier, also when the sequence number passes 0xFFFF.
C5_PingIdentifierKept ==
    [][(cls = "Ping" /\ ret'.status = "bytes")
          => /\ ByteAt(ret'.data, 20) = ECHO_REQUEST
             /\ ByteAt(ret'.data, 21) = 0
             /\ U16At(ret'.data, 26) = builds' % 65536
             /\ U16At(ret'.data, 24) = self.icmp_opt \div 65536
             /\ self'.icmp_opt \div 65536 = self.icmp_opt \div 65536]_vars

\* the transport-layer attributes of the object
ChecksumAttrs == {"tcp_hdr_chksum", "icmp_hdr_chksum"}
TransportAttrs ==
    DOMAIN self \cap (DOMAIN TCPBits \cup DOMAIN ICMPBits \cup {"tcp_opts", "payload"})

\* offsets (from 1) of the IP identification and IP checksum bytes
IdAndChecksumBytes == {5, 6, 11, 12}

SameButIdAndChecksum(a, b) ==
    /\ Len(a) = Len(b)
    /\ \A i \in 1..Len(a) : a[i] # b[i] => i \in IdAndChecksumBytes

TransportPack ==
    /\ cls \in {"TCPGenerator", "ICMPGenerator"}
    /\ calls' = calls + 1
    /\ ret'.status = "bytes"

\* C6 as stated: two consecutive pack() calls on a TCP or ICMP generator
\* with nothing assigned in between return packets that differ only in the
\* IP identification and IP checksum bytes, and pack() changes no
\* transport-layer attribute of the object.
C6_OnlyCountersChange ==
    [][TransportPack
          => /\ ret.status = "bytes" => SameButIdAndChecksum(ret.data, ret'.data)
             /\ \A f \in TransportAttrs : self'[f] = self[f]]_vars

\* C6 amended: as above, pack() changing no transport-layer attribute other
\* than the stored checksum (tcp_hdr_chksum, icmp_hdr_chksum), which it
\* recomputes.
C6_OnlyCountersAndChecksumChange ==
    [][TransportPack
          => /\ ret.status = "bytes" => SameButIdAndChecksum(ret.data, ret'.data)
             /\ \A f \in TransportAttrs \ ChecksumAttrs : self'[f] = self[f]]_vars

C6_Witness ==
    /\ cls \in {"TCPGenerator", "ICMPGenerator"}
    /\ sets = 0
    /\ builds = 2
    /\ ret.status = "bytes"
    /\ self.ip_id = 3

\* the attributes read back from a packet by the documented layout
ParsedIP(d) ==
    [ip_version |-> ByteAt(d, 0) \div 16, ip_hdr_len |-> ByteAt(d, 0) % 16,
     ip_dscp |-> ByteAt(d, 1) \div 4, ip_ecn |-> ByteAt(d, 1) % 4,
     ip_total_len |-> U16At(d, 2),
     ip_flag |-> ByteAt(d, 6) \div 32,
     ip_frag_offset |-> (ByteAt(d, 6) % 32) * 256 + ByteAt(d, 7),
     ip_ttl |-> ByteAt(d, 8), ip_protocol |-> ByteAt(d, 9),
     ip_src_ip |-> Slice(d, 12, 4), ip_dst_ip |-> Slice(d, 16, 4)]

ParsedTCP(d) ==
    [tcp_src_port |-> U16At(d, 20), tcp_dst_port |-> U16At(d, 22),
     tcp_sqn |-> Slice(d, 24, 4), tcp_ack |-> Slice(d, 28, 4),
     tcp_hdr_length |-> ByteAt(d, 32) \div 16,
     tcp_reserved |-> (ByteAt(d, 32) \div 2) % 8,
     tcp_flag_ns |-> ByteAt(d, 32) % 2,
     tcp_flag_cwr |-> ByteAt(d, 33) \div 128,
     tcp_flag_ece |-> (ByteAt(d, 33) \div 64) % 2,
     tcp_flag_urg |-> (ByteAt(d, 33) \div 32) % 2,
     tcp_flag_ack |-> (ByteAt(d, 33) \div 16) % 2,
     tcp_flag_psh |-> (ByteAt(d, 33) \div 8) % 2,
     tcp_flag_rst |-> (ByteAt(d, 33) \div 4) % 2,
     tcp_flag_syn |-> (ByteAt(d, 33) \div 2) % 2,
     tcp_flag_fin |-> ByteAt(d, 33) % 2,
     tcp_win_size |-> U16At(d, 34), tcp_urg_pntr |-> U16At(d, 38)]

ParsedICMP(d) ==
    [icmp_type |-> ByteAt(d, 20), icmp_code |-> ByteAt(d, 21),
     icmp_opt |-> Slice(d, 24, 4)]

Parsed(d) ==
    IF cls = "TCPGenerator" THEN ParsedIP(d) @@ ParsedTCP(d)
    ELSE IF cls = "IPGenerator" THEN ParsedIP(d)
    ELSE ParsedIP(d) @@ ParsedICMP(d)

\* an attribute as the parse gives it: 32-bit ones as their four bytes
AsParsed(f, v) == IF Bits[f] = 32 THEN BytesOf(4, v) ELSE v

\* C7: for in-range attributes, parsing the returned bytes by the documented
\* layout recovers every attribute other than the checksums and ip_id, the
\* TCP reserved bits included.
C7_RoundTrip ==
    (PackReturned /\ InRange(self))
        => \A f \in DOMAIN Parsed(ret.data) :
              Parsed(ret.data)[f] = AsParsed(f, self[f])

\* the 12-byte pseudo-header of the claim
PseudoHeader(s) ==
    BytesOf(4, s.ip_src_ip) \o BytesOf(4, s.ip_dst_ip) \o <<0, s.ip_protocol>>
        \o BytesOf(2, s.tcp_hdr_length * 4 + Len(s.payload))

\* TCP header and payload of a returned packet
Segment(d) == Slice(d, 20, Len(d) - 20)

\* C8: for in-range attributes and a payload of even or odd length, bytes
\* 16-17 of the emitted TCP header hold the RFC 1071 checksum of
\* pseudo-header ++ TCP header with zeroed checksum ++ payload.
C8_TCPChecksum ==
    (cls = "TCPGenerator" /\ ret.status = "bytes" /\ InRange(self))
        => U16At(Segment(ret.data), 16)
              = RFC1071(PseudoHeader(self) \o Zeroed(Segment(ret.data), 16, 2))

\* C9: for every ICMP generator, Ping included, and a payload of even or odd
\* length, bytes 2-3 of the emitted ICMP message hold the RFC 1071 checksum
\* of the message with zeroed checksum; a Ping's payload, as constructed, is
\* of even length.
C9_ICMPChecksum ==
    /\ (cls \in {"ICMPGenerator", "Ping"} /\ ret.status = "bytes")
          => U16At(Segment(ret.data), 2)
                = RFC1071(Zeroed(Segment(ret.data), 2, 2))
    /\ (cls = "Ping" /\ sets = 0) => Len(self.payload) % 2 = 0

\* C10: whenever an attribute of an IP or TCP generator holds a value wider
\* than its declared width, pack() returns no bytes.
C10_OverflowRejected ==
    (cls \in {"IPGenerator", "TCPGenerator"} /\ ret.status = "bytes")
        => InRange(self)

\* a pack() call that ended in an exception raised to the caller or in exit()
FailedPack ==
    /\ IsGenerator
    /\ calls' = calls + 1
    /\ ret'.status \in {"raise", "exit"}

\* C11: a pack() call on an IP, TCP, ICMP or Ping generator that ends in
\* failure (tcp_opts non-zero, or a value struct.pack cannot serialize)
\* leaves every attribute of the object as it was immediately before the
\* call: ip_id, icmp_opt, the stored checksums and ip_total_len included,
\* also after earlier packs that returned.
C11_FailureAtomic ==
    [][FailedPack => self' = self]_vars

\* the initial pack of IPGenerator.pack, over which the checksum is
\* calculated: the attributes as they were at the call, the total length of
\* this call and a zero checksum
ChecksumInput(s, total_len) ==
    StructPack(IPFormat,
               IPHeaderValues([s EXCEPT !.ip_total_len = total_len,
                                        !.ip_hdr_chksum = 0]))

\* offsets (from 1) of the IP checksum bytes
ChecksumBytes == {11, 12}

\* the IP header of a returned packet
IPHeaderOf(d) == Slice(d, 0, 20)

\* C12: the IP header returned by a pack() call carries in bytes 4-5 the
\* ip_id the object held before that call, the increment showing only in
\* the next call: with ip_id never assigned, the k-th header carries the
\* k-th value of 1, 2, ..., 0xFFFF, 1, ...; and the returned header differs
\* from the bytes the checksum was calculated over only in bytes 10-11.
C12_IdOfThisCall ==
    [][(IsGenerator /\ calls' = calls + 1 /\ ret'.status = "bytes")
          => /\ U16At(IPHeaderOf(ret'.data), 4) = self.ip_id
             /\ sets = 0 => U16At(IPHeaderOf(ret'.data), 4) = 1 + (builds % MaxId)
             /\ \A i \in 1..20 :
                   IPHeaderOf(ret'.data)[i] # ChecksumInput(self, self'.ip_total_len)[i]
                       => i \in ChecksumBytes]_vars

====
